---------------------------- MODULE Spec2Model ----------------------------
(***************************************************************************)
(* Car Charge Recorder: the session store (models.py), the auth gate and   *)
(* the request handlers (routes.py) as a state machine.                    *)
(*                                                                         *)
(* Spec      one uvicorn process (main.py:35-36): every handler is an      *)
(*           `async def` with no await in its body, so a handler runs from *)
(*           its first line to its return without interleaving.            *)
(* SpecConc  several worker processes over the same SQLite file: the      *)
(*           "end" branch of create_session is split at the point between  *)
(*           its SELECT (routes.py:142-144) and its UPDATE/commit          *)
(*           (routes.py:152-154), where another process may run.           *)
(***************************************************************************)
EXTENDS Integers, FiniteSets, Sequences, TLC

(***************************************************************************)
(* Bounds of the model.                                                    *)
(***************************************************************************)
\* datetime.now() is read at most MaxClock - 1 times in a behaviour.
MaxClock == 4

(***************************************************************************)
(* Python values.  Optional[T] is a sequence: <<>> is None, <<v>> is v.    *)
(***************************************************************************)
None == <<>>

Some(v) == <<v>>

\* bool(x) of an Optional[int]: None and 0 are falsy.
TruthyInt(x) == x # None /\ x[1] # 0

\* bool(x) of an Optional[str]: None and "" are falsy.
TruthyStr(x) == x # None /\ x[1] # ""

(***************************************************************************)
(* Program constants.                                                      *)
(***************************************************************************)
SESSION_COOKIE_NAME == "chargerecorder_session"

\* The name of the cookie the gate reads: Cookie(None) without an alias
\* takes the name of the parameter it annotates.
CookieParam == "session_cookie"

MinPercentage == 0

MaxPercentage == 100

(***************************************************************************)
(* Inputs.                                                                 *)
(***************************************************************************)
Secret == "secret"

Wrong == "wrong"

\* os.getenv("UNLOCK_PHRASE", ""): unset/empty, or a passphrase.
PhraseConfigs == {"", Secret}

Browsers == {"browser"}

Script == "curl"

Callers == Browsers \cup {Script}

CookieNames == {SESSION_COOKIE_NAME, CookieParam}

\* Values a client may send for a cookie or a phrase.
TextInputs == {"", Secret, Wrong}

EmptyJar == [n \in CookieNames |-> None]

\* A hand-written Cookie header: the cookie the gate reads, with the right
\* or a wrong value.  (No cookie at all is what a fresh browser sends, and the
\* cookie unlock sets is what an unlocked browser sends.)
ForgedJars ==
    {[EmptyJar EXCEPT ![CookieParam] = Some(v)] : v \in {Secret, Wrong}}

PercentageInputs ==
    {MinPercentage - 1, MinPercentage, MaxPercentage, MaxPercentage + 1}

KindInputs == {"start", "end", "pause"}

IdInputs == 1..(MaxClock - 1)

Workers == {1, 2}

VARIABLES
    UNLOCK_PHRASE,  \* routes.py:15, read once at import
    store,          \* the rows of table charging_sessions
    clock,          \* the value the next datetime.now() returns
    jar,            \* each browser's cookie jar
    attempts,       \* history: each browser's unlock attempts so far
    issued,         \* history: the largest id a row has ever had, 0 if none
    pend,           \* SpecConc: each worker's create_session(end) in progress
    req,            \* the request handled by the last step
    resp            \* its response

vars ==
    <<UNLOCK_PHRASE, store, clock, jar, attempts, issued, pend, req, resp>>

(***************************************************************************)
(* models.py: ChargingSession                                              *)
(***************************************************************************)
ChargingSession(id, start_percentage, start_time, end_percentage, end_time) ==
    [id |-> id, start_percentage |-> start_percentage,
     start_time |-> start_time, end_percentage |-> end_percentage,
     end_time |-> end_time]

Ids(db) == {s.id : s \in db}

MaxOf(S) == CHOOSE x \in S : \A y \in S : y <= x

\* INTEGER PRIMARY KEY without AUTOINCREMENT: SQLite gives a new row the
\* largest rowid in the table plus one, 1 in an empty table.
NextId(db) == IF db = {} THEN 1 ELSE MaxOf(Ids(db)) + 1

\* .filter(ChargingSession.end_percentage.is_(None))
OpenRowsUnfiltered(db) == db

OpenRows(db) == {s \in db : s.end_percentage = None}

\* .order_by(ChargingSession.start_time.desc()).first(): the candidates for
\* the first row (one, unless start times tie); {} when first() is None.
OldestOpen(db) ==
    {s \in OpenRows(db) : \A t \in OpenRows(db) : s.start_time <= t.start_time}

MostRecentOpen(db) ==
    {s \in OpenRows(db) : \A t \in OpenRows(db) : t.start_time <= s.start_time}

RECURSIVE OrderAsc(_)
\* .order_by(ChargingSession.start_time.asc()).all()
OrderAsc(db) ==
    IF db = {} THEN <<>>
    ELSE LET m == CHOOSE x \in db : \A y \in db : x.start_time <= y.start_time
         IN  <<m>> \o OrderAsc(db \ {m})

RECURSIVE OrderDesc(_)
\* .order_by(ChargingSession.start_time.desc()).all()
OrderDesc(db) ==
    IF db = {} THEN <<>>
    ELSE LET m == CHOOSE x \in db : \A y \in db : y.start_time <= x.start_time
         IN  <<m>> \o OrderDesc(db \ {m})

(***************************************************************************)
(* routes.py: the auth gate                                                *)
(***************************************************************************)
verify_session_always_compares(session_cookie) ==
    IF ~TruthyStr(session_cookie) THEN FALSE
    ELSE session_cookie[1] = UNLOCK_PHRASE

verify_session_fail_open(session_cookie) ==
    IF ~TruthyStr(Some(UNLOCK_PHRASE)) THEN TRUE
    ELSE IF ~TruthyStr(session_cookie) THEN TRUE
    ELSE session_cookie[1] = UNLOCK_PHRASE

verify_session(session_cookie) ==
    IF ~TruthyStr(Some(UNLOCK_PHRASE)) THEN TRUE
    ELSE IF ~TruthyStr(session_cookie) THEN FALSE
    ELSE session_cookie[1] = UNLOCK_PHRASE

\* What the cookie parameter of a handler receives from a request's cookies.
CookieArg(cookies) == cookies[CookieParam]

\* The cookies a caller sends: a browser sends its jar, a script anything.
Presented(c) == IF c \in Browsers THEN {jar[c]} ELSE ForgedJars

(***************************************************************************)
(* Requests and responses                                                  *)
(***************************************************************************)
NoBody == [none |-> TRUE]

Request(op, c, token, phrase, kind, percentage, session_id) ==
    [op |-> op, caller |-> c, token |-> token, phrase |-> phrase,
     kind |-> kind, percentage |-> percentage, session_id |-> session_id]

Response(code, detail, body, set_cookie) ==
    [code |-> code, detail |-> detail, body |-> body,
     set_cookie |-> set_cookie]

HTTPException(code, detail) == Response(code, detail, NoBody, None)

Unauthorized == HTTPException(401, "Unauthorized")

Ok(body) == Response(200, "", body, None)

(***************************************************************************)
(* Text conversions                                                        *)
(***************************************************************************)
\* datetime.isoformat(): the text of a timestamp.
isoformat(t) == "T" \o ToString(t)

\* str(n), as csv.writer writes an int.
str(n) == ToString(n)

(***************************************************************************)
(* routes.py: the handlers, as functions from the database (and the        *)
(* request) to the set of outcomes [resp, db] the handler can produce.     *)
(***************************************************************************)
Outcome(r, db) == [resp |-> r, db |-> db]

unlock_any_phrase(phrase) ==
    IF ~TruthyStr(Some(UNLOCK_PHRASE))
    THEN Ok([success |-> TRUE, message |-> "No passphrase configured"])
    ELSE Response(200, "", [success |-> TRUE, message |-> "Unlocked"],
                  Some(<<SESSION_COOKIE_NAME, UNLOCK_PHRASE>>))

unlock(phrase) ==
    IF ~TruthyStr(Some(UNLOCK_PHRASE))
    THEN Ok([success |-> TRUE, message |-> "No passphrase configured"])
    ELSE IF phrase = UNLOCK_PHRASE
    THEN Response(200, "", [success |-> TRUE, message |-> "Unlocked"],
                  Some(<<SESSION_COOKIE_NAME, UNLOCK_PHRASE>>))
    ELSE Ok([success |-> FALSE, message |-> "Incorrect passphrase"])

get_status(db, session_cookie) ==
    IF ~verify_session(session_cookie) THEN {Outcome(Unauthorized, db)}
    ELSE IF MostRecentOpen(db) = {}
    THEN {Outcome(Ok([status |-> "idle"]), db)}
    ELSE {Outcome(Ok([status |-> "charging",
                      start_percentage |-> open_session.start_percentage,
                      start_time |-> isoformat(open_session.start_time)]), db)
          : open_session \in MostRecentOpen(db)}

SessionJson(s) ==
    [id |-> s.id, start_percentage |-> s.start_percentage,
     start_time |-> isoformat(s.start_time),
     end_percentage |-> s.end_percentage,
     end_time |-> IF s.end_time # None THEN Some(isoformat(s.end_time[1]))
                  ELSE None]

get_sessions(db, session_cookie) ==
    IF ~verify_session(session_cookie) THEN {Outcome(Unauthorized, db)}
    ELSE LET sessions == OrderDesc(db)
         IN  {Outcome(Ok([sessions |->
                  [i \in 1..Len(sessions) |-> SessionJson(sessions[i])]]), db)}

ValidPercentageNoUpper(percentage) == ~(percentage < MinPercentage)

ValidPercentage(percentage) ==
    ~(percentage < MinPercentage \/ percentage > MaxPercentage)

UpdateEndTimeOnly(db, id, end_percentage, end_time) ==
    {IF s.id = id THEN [s EXCEPT !.end_time = Some(end_time)] ELSE s
     : s \in db}

UpdateEndAllOpen(db, id, end_percentage, end_time) ==
    {IF s.end_percentage = None
     THEN [s EXCEPT !.end_percentage = Some(end_percentage),
                    !.end_time = Some(end_time)]
     ELSE s : s \in db}

\* routes.py:152-154: UPDATE charging_sessions SET end_percentage=?,
\* end_time=? WHERE id = ?
UpdateEnd(db, id, end_percentage, end_time) ==
    {IF s.id = id
     THEN [s EXCEPT !.end_percentage = Some(end_percentage),
                    !.end_time = Some(end_time)]
     ELSE s : s \in db}

StartedJson(s) ==
    [id |-> s.id, start_percentage |-> s.start_percentage,
     start_time |-> isoformat(s.start_time)]

\* routes.py:123-138, the "start" branch.
record_start(db, now, percentage) ==
    LET session == ChargingSession(NextId(db), percentage, now, None, None)
    IN  {Outcome(Ok([message |-> <<"Recorded", percentage,
                                   "% as start charge">>,
                     session |-> StartedJson(session)]),
                 db \cup {session})}

\* routes.py:152-164: the UPDATE of the row the handler loaded, the commit and
\* the response.  An UPDATE that matches no row (the row was deleted since it
\* was loaded) makes the commit raise, which the server answers with 500.
commit_end(db, id, percentage, now) ==
    IF id \notin Ids(db)
    THEN Outcome(HTTPException(500, "Internal Server Error"), db)
    ELSE LET db2 == UpdateEnd(db, id, percentage, now)
             closed == CHOOSE s \in db2 : s.id = id
         IN  Outcome(Ok([message |-> <<"Recorded", percentage,
                                       "% as end charge">>,
                         session |-> SessionJson(closed)]), db2)

NoActiveSession ==
    HTTPException(400, "No active charging session found")

record_end_unchecked(db, now, percentage) ==
    IF MostRecentOpen(db) = {}
    THEN {Outcome(HTTPException(500, "Internal Server Error"), db)}
    ELSE {commit_end(db, open_session.id, percentage, now)
          : open_session \in MostRecentOpen(db)}

\* routes.py:140-164, the "end" branch.
record_end(db, now, percentage) ==
    IF MostRecentOpen(db) = {}
    THEN {Outcome(NoActiveSession, db)}
    ELSE {commit_end(db, open_session.id, percentage, now)
          : open_session \in MostRecentOpen(db)}

create_session_default_start(db, now, session_cookie, percentage, type) ==
    IF ~verify_session(session_cookie) THEN {Outcome(Unauthorized, db)}
    ELSE IF ~ValidPercentage(percentage)
    THEN {Outcome(HTTPException(400, "Percentage must be between 0 and 100"),
                  db)}
    ELSE IF type = "end" THEN record_end(db, now, percentage)
    ELSE record_start(db, now, percentage)

create_session(db, now, session_cookie, percentage, type) ==
    IF ~verify_session(session_cookie) THEN {Outcome(Unauthorized, db)}
    ELSE IF ~ValidPercentage(percentage)
    THEN {Outcome(HTTPException(400, "Percentage must be between 0 and 100"),
                  db)}
    ELSE IF type = "start" THEN record_start(db, now, percentage)
    ELSE IF type = "end" THEN record_end(db, now, percentage)
    ELSE {Outcome(HTTPException(400, "Type must be 'start' or 'end'"), db)}

\* routes.py:121 is reached: the request read the clock.
ReadsClock(session_cookie, percentage) ==
    verify_session(session_cookie) /\ ValidPercentage(percentage)

CsvHeader ==
    <<"start_percentage", "start_datetime", "end_percentage", "end_datetime">>

CsvRow(s) ==
    <<str(s.start_percentage),
      isoformat(s.start_time),
      IF TruthyInt(s.end_percentage) THEN str(s.end_percentage[1]) ELSE "",
      IF s.end_time # None THEN isoformat(s.end_time[1]) ELSE "">>

export_csv_and_clear(db, session_cookie) ==
    IF ~verify_session(session_cookie) THEN {Outcome(Unauthorized, db)}
    ELSE LET sessions == OrderAsc(db)
         IN  {Outcome(Ok([content |-> <<CsvHeader>> \o
                  [i \in 1..Len(sessions) |-> CsvRow(sessions[i])]]), {})}

export_csv(db, session_cookie) ==
    IF ~verify_session(session_cookie) THEN {Outcome(Unauthorized, db)}
    ELSE LET sessions == OrderAsc(db)
         IN  {Outcome(Ok([content |-> <<CsvHeader>> \o
                  [i \in 1..Len(sessions) |-> CsvRow(sessions[i])]]), db)}

delete_session_idempotent(db, session_cookie, session_id) ==
    IF ~verify_session(session_cookie) THEN {Outcome(Unauthorized, db)}
    ELSE {Outcome(Ok([message |-> "Session deleted"]),
                  {s \in db : s.id # session_id})}

delete_session(db, session_cookie, session_id) ==
    IF ~verify_session(session_cookie) THEN {Outcome(Unauthorized, db)}
    ELSE IF {s \in db : s.id = session_id} = {}
    THEN {Outcome(HTTPException(404, "Session not found"), db)}
    ELSE {Outcome(Ok([message |-> "Session deleted"]),
                  {s \in db : s.id # session_id})}

delete_all_closed(db, session_cookie) ==
    IF ~verify_session(session_cookie) THEN {Outcome(Unauthorized, db)}
    ELSE {Outcome(Ok([message |-> "All sessions deleted"]), OpenRows(db))}

delete_all_sessions(db, session_cookie) ==
    IF ~verify_session(session_cookie) THEN {Outcome(Unauthorized, db)}
    ELSE {Outcome(Ok([message |-> "All sessions deleted"]), {})}

health_check == Ok([status |-> "ok"])

Init ==
    /\ UNLOCK_PHRASE \in PhraseConfigs
    /\ store = {}
    /\ clock = 1
    /\ jar = [b \in Browsers |-> EmptyJar]
    /\ attempts = [b \in Browsers |-> "none"]
    /\ issued = 0
    /\ pend = [w \in Workers |-> [pc |-> "idle"]]
    /\ req = Request("none", Script, None, "", "", 0, 0)
    /\ resp = Ok(NoBody)


(***************************************************************************)
(* Actions: one request handled from its first line to its response.       *)
(***************************************************************************)
\* The browser keeps the cookie a response sets (Set-Cookie, routes.py:50-56).
StoreCookie(c, set_cookie) ==
    IF c \in Browsers /\ set_cookie # None
    THEN [jar EXCEPT ![c][set_cookie[1][1]] = Some(set_cookie[1][2])]
    ELSE jar

Unlock(c, phrase) ==
    /\ req' = Request("unlock", c, None, phrase, "", 0, 0)
    /\ resp' = unlock(phrase)
    /\ jar' = StoreCookie(c, resp'.set_cookie)
    /\ attempts' = IF c \notin Browsers \/ attempts[c] = "succeeded"
                   THEN attempts
                   ELSE [attempts EXCEPT ![c] = IF resp'.body.success
                                                THEN "succeeded"
                                                ELSE "failed"]
    /\ UNCHANGED <<UNLOCK_PHRASE, store, clock, issued, pend>>

\* A handler that reads the clock only through create_session.
Handle(op, c, session_cookie, kind, percentage, session_id, outcomes) ==
    /\ req' = Request(op, c, session_cookie, "", kind, percentage, session_id)
    /\ \E o \in outcomes : resp' = o.resp /\ store' = o.db
    /\ issued' = IF Ids(store') = {} \/ MaxOf(Ids(store')) <= issued
                 THEN issued ELSE MaxOf(Ids(store'))
    /\ UNCHANGED <<UNLOCK_PHRASE, jar, attempts, pend>>

GetStatus(c, cookies) ==
    /\ Handle("status", c, CookieArg(cookies), "", 0, 0,
              get_status(store, CookieArg(cookies)))
    /\ UNCHANGED clock

GetSessions(c, cookies) ==
    /\ Handle("sessions", c, CookieArg(cookies), "", 0, 0,
              get_sessions(store, CookieArg(cookies)))
    /\ UNCHANGED clock

\* now = datetime.now() (routes.py:121): each read returns a later time than
\* the reads before it.
CreateSession(c, cookies, percentage, type) ==
    /\ ReadsClock(CookieArg(cookies), percentage) => clock < MaxClock
    /\ Handle("record", c, CookieArg(cookies), type, percentage, 0,
              create_session(store, clock, CookieArg(cookies), percentage,
                             type))
    /\ clock' = IF ReadsClock(CookieArg(cookies), percentage)
                THEN clock + 1 ELSE clock

ExportCsv(c, cookies) ==
    /\ Handle("csv", c, CookieArg(cookies), "", 0, 0,
              export_csv(store, CookieArg(cookies)))
    /\ UNCHANGED clock

DeleteSession(c, cookies, session_id) ==
    /\ Handle("delete", c, CookieArg(cookies), "", 0, session_id,
              delete_session(store, CookieArg(cookies), session_id))
    /\ UNCHANGED clock

DeleteAllSessions(c, cookies) ==
    /\ Handle("delete_all", c, CookieArg(cookies), "", 0, 0,
              delete_all_sessions(store, CookieArg(cookies)))
    /\ UNCHANGED clock

HealthCheck(c, cookies) ==
    /\ Handle("health", c, CookieArg(cookies), "", 0, 0,
              {Outcome(health_check, store)})
    /\ UNCHANGED clock

Next ==
    \E c \in Callers :
        \/ \E phrase \in TextInputs : Unlock(c, phrase)
        \/ \E cookies \in Presented(c) :
            \/ GetStatus(c, cookies)
            \/ GetSessions(c, cookies)
            \/ \E percentage \in PercentageInputs, type \in KindInputs :
                   CreateSession(c, cookies, percentage, type)
            \/ ExportCsv(c, cookies)
            \/ \E session_id \in IdInputs :
                   DeleteSession(c, cookies, session_id)
            \/ DeleteAllSessions(c, cookies)
            \/ HealthCheck(c, cookies)

(***************************************************************************)
(* Several worker processes: create_session's "end" branch in two steps.   *)
(***************************************************************************)
\* routes.py:113-150 of a request that reaches the SELECT: the worker has
\* read the clock and loaded the most recent open row, or answers 400.
EndSelect(w, c, cookies, percentage) ==
    /\ pend[w].pc = "idle"
    /\ ReadsClock(CookieArg(cookies), percentage)
    /\ clock < MaxClock
    /\ req' = Request("record/select", c, CookieArg(cookies), "", "end",
                      percentage, 0)
    /\ clock' = clock + 1
    /\ IF MostRecentOpen(store) = {}
       THEN resp' = NoActiveSession /\ pend' = pend
       ELSE \E open_session \in MostRecentOpen(store) :
                /\ resp' = Response(0, "pending", NoBody, None)
                /\ pend' = [pend EXCEPT ![w] =
                               [pc |-> "commit", id |-> open_session.id,
                                percentage |-> percentage, now |-> clock,
                                caller |-> c, token |-> CookieArg(cookies)]]
    /\ UNCHANGED <<UNLOCK_PHRASE, store, jar, attempts, issued>>

\* routes.py:152-164 of that request.
EndCommit(w) ==
    /\ pend[w].pc = "commit"
    /\ req' = Request("record/commit", pend[w].caller, pend[w].token, "",
                      "end", pend[w].percentage, 0)
    /\ LET o == commit_end(store, pend[w].id, pend[w].percentage, pend[w].now)
       IN  resp' = o.resp /\ store' = o.db
    /\ pend' = [pend EXCEPT ![w] = [pc |-> "idle"]]
    /\ UNCHANGED <<UNLOCK_PHRASE, clock, jar, attempts, issued>>

NextConc ==
    \/ Next
    \/ \E w \in Workers :
        \/ \E c \in Callers : \E cookies \in Presented(c) :
               \E percentage \in PercentageInputs :
                   EndSelect(w, c, cookies, percentage)
        \/ EndCommit(w)

Spec == Init /\ [][Next]_vars

SpecConc == Init /\ [][NextConc]_vars

(***************************************************************************)
(* Properties                                                              *)
(***************************************************************************)
\* A session is open when both end fields are absent, closed when both are set.
IsOpen(s) == s.end_percentage = None /\ s.end_time = None

IsClosed(s) == s.end_percentage # None /\ s.end_time # None

\* authorize(token) of the auth gate.
Authorizes(token) == UNLOCK_PHRASE = "" \/ token = Some(UNLOCK_PHRASE)

GatedOps == {"status", "sessions", "record", "csv", "delete", "delete_all"}

InRange(p) == MinPercentage <= p /\ p <= MaxPercentage

\* The end fields of every closed session that is still stored are the same
\* after the step.
EndFieldsKept ==
    \A s \in store : IsClosed(s) =>
        \A t \in store' : t.id = s.id =>
            /\ t.end_percentage = s.end_percentage
            /\ t.end_time = s.end_time

\* C1: in every reachable state the store holds at most one open session.
C1_AtMostOneOpen == Cardinality({s \in store : IsOpen(s)}) <= 1

\* C2: with requests handled one at a time, no request changes or clears the
\* end fields of a closed session for as long as the session is stored.
C2_ClosedIsFinal == [][EndFieldsKept]_vars

\* C2 witness: an "end" was handled after the only sessions had been closed.
C2_Witness ==
    /\ req.op = "record" /\ req.kind = "end" /\ resp.code = 400
    /\ InRange(req.percentage)
    /\ \E s \in store : IsClosed(s)

\* C3: record(end, p), p in [0,100], with no open session answers 400 "No
\* active charging session found" and leaves the store unchanged.
C3_EndWithoutOpen ==
    [][(/\ req'.op = "record" /\ req'.kind = "end"
        /\ InRange(req'.percentage)
        /\ {s \in store : IsOpen(s)} = {})
       => /\ store' = store
          /\ Authorizes(req'.token) =>
                /\ resp'.code = 400
                /\ resp'.detail = "No active charging session found"]_vars

\* C3 witness: the request was refused over a store of closed sessions.
C3_Witness ==
    /\ req.op = "record" /\ req.kind = "end" /\ InRange(req.percentage)
    /\ Authorizes(req.token)
    /\ resp.detail = "No active charging session found"
    /\ store # {} /\ \A s \in store : IsClosed(s)

\* C4: record(kind, p) with p outside [0,100], for every kind, answers 400
\* (validation) and creates or modifies no session.
C4_PercentageOutOfRange ==
    [][(req'.op = "record" /\ ~InRange(req'.percentage))
       => /\ store' = store
          /\ Authorizes(req'.token) =>
                /\ resp'.code = 400
                /\ resp'.detail = "Percentage must be between 0 and 100"]_vars

\* C4 witness: a start with 101 was refused while a session was stored.
C4_Witness ==
    /\ req.op = "record" /\ req.kind = "start"
    /\ req.percentage = MaxPercentage + 1
    /\ Authorizes(req.token) /\ resp.code = 400
    /\ store # {}

\* C5: an authorized record(start, p), p in [0,100], succeeds, adds exactly
\* one session (open, start_percentage = p), leaves the others unchanged, and
\* a status() right after it reports charging with start_percentage = p.
C5_StartCreatesOpen ==
    [][(/\ req'.op = "record" /\ req'.kind = "start"
        /\ InRange(req'.percentage) /\ Authorizes(req'.token))
       => /\ resp'.code = 200
          /\ \E n \in store' \ store :
                /\ store' = store \cup {n}
                /\ n.id \notin {s.id : s \in store}
                /\ IsOpen(n)
                /\ n.start_percentage = req'.percentage
          /\ \A o \in get_status(store', req'.token) :
                /\ o.resp.code = 200
                /\ o.resp.body.status = "charging"
                /\ o.resp.body.start_percentage = req'.percentage]_vars

\* C5 witness: a start succeeded while an earlier session, started with
\* another percentage, was still open.
C5_Witness ==
    /\ req.op = "record" /\ req.kind = "start" /\ resp.code = 200
    /\ \E s \in store : IsOpen(s) /\ s.start_percentage # req.percentage

\* C6: with a passphrase configured, a gated request with no token or a token
\* other than the passphrase answers 401 and leaves the store unchanged; the
\* health check is served whatever the token.
C6_GateBlocks ==
    [][/\ (/\ UNLOCK_PHRASE # "" /\ req'.op \in GatedOps
           /\ req'.token # Some(UNLOCK_PHRASE))
          => /\ resp'.code = 401 /\ resp'.detail = "Unauthorized"
             /\ store' = store
       /\ req'.op = "health" => resp'.code = 200 /\ store' = store]_vars

\* C6 witness: a delete_all with a wrong token was refused over a store that
\* holds sessions.
C6_Witness ==
    /\ UNLOCK_PHRASE # "" /\ req.op = "delete_all"
    /\ req.token = Some(Wrong) /\ resp.code = 401
    /\ store # {}

\* C7: with a passphrase configured, after a successful unlock a request of
\* the same caller that presents the cookie that unlock set, under the name
\* it was set with, is authorized by every gated endpoint.
C7_UnlockedIsAuthorized ==
    (/\ UNLOCK_PHRASE # "" /\ req.op \in GatedOps
     /\ req.caller \in Browsers
     /\ attempts[req.caller] = "succeeded"
     /\ jar[req.caller][SESSION_COOKIE_NAME] = Some(UNLOCK_PHRASE))
    => resp.code # 401

\* C8: with a passphrase configured, unlock with another phrase answers
\* success = false (a 200, no exception) and sets no cookie, and a caller
\* whose unlock attempts have all failed is refused by every gated endpoint.
C8_WrongPhrase ==
    [][/\ (/\ UNLOCK_PHRASE # "" /\ req'.op = "unlock"
           /\ req'.phrase # UNLOCK_PHRASE)
          => /\ resp'.code = 200 /\ resp'.body.success = FALSE
             /\ resp'.set_cookie = None
             /\ jar' = jar
       /\ (/\ UNLOCK_PHRASE # "" /\ req'.op \in GatedOps
           /\ req'.caller \in Browsers
           /\ attempts'[req'.caller] = "failed")
          => resp'.code = 401 /\ store' = store]_vars

\* C8 witness: a caller whose unlock attempts all failed was refused while
\* sessions were stored.
C8_Witness ==
    /\ UNLOCK_PHRASE # "" /\ req.op \in GatedOps
    /\ req.caller \in Browsers /\ attempts[req.caller] = "failed"
    /\ resp.code = 401 /\ store # {}

\* C9: with no passphrase configured every gated request is authorized,
\* whatever token it presents (none included), and unlock succeeds for every
\* phrase.
C9_NoPassphrase ==
    UNLOCK_PHRASE = "" =>
        /\ req.op \in GatedOps => resp.code # 401
        /\ req.op = "unlock" => resp.code = 200 /\ resp.body.success = TRUE

\* C9 witness: a request with no token at all deleted a session.
C9_Witness ==
    /\ UNLOCK_PHRASE = "" /\ req.op = "delete" /\ req.token = None
    /\ resp.code = 200

\* C10: of two concurrent record(end) requests that loaded the same open
\* session, the second to write is rejected: the end fields the first wrote
\* are not overwritten.
C10_NoDoubleClose ==
    [][req'.op = "record/commit" => EndFieldsKept]_vars

\* The row export() is to write for a session: the end fields are the empty
\* text exactly when the session is open.
ExpectedCsvRow(s) ==
    <<str(s.start_percentage),
      isoformat(s.start_time),
      IF IsOpen(s) THEN "" ELSE str(s.end_percentage[1]),
      IF IsOpen(s) THEN "" ELSE isoformat(s.end_time[1])>>

\* The place of a session among the stored ones, by ascending start_time.
RankAsc(s) == Cardinality({t \in store : t.start_time <= s.start_time})

\* C11: export() yields the header row, then one row per stored session in
\* ascending start_time order; a row's end fields are empty exactly when the
\* session is open, and otherwise the text of its end_percentage (any value
\* in [0,100]) and end time.
C11_ExportRows ==
    (req.op = "csv" /\ resp.code = 200) =>
        /\ Len(resp.body.content) = Cardinality(store) + 1
        /\ resp.body.content[1] = CsvHeader
        /\ \A s \in store :
              resp.body.content[RankAsc(s) + 1] = ExpectedCsvRow(s)

\* C12: every newly created session gets an id greater than every id given
\* to an earlier session, deleted ones included, so no id is used twice.
C12_IdsNeverReused ==
    [][(req'.op = "record" /\ req'.kind = "start" /\ resp'.code = 200)
       => \A n \in store' \ store : n.id > issued]_vars

\* C13: from an empty store, record(start, p) then record(end, q), p and q
\* in [0,100], leaves exactly one session, with start_percentage = p and
\* end_percentage = q, and status() then reports idle.
C13_RoundTrip ==
    [][(/\ req.op = "record" /\ req.kind = "start" /\ resp.code = 200
        /\ Cardinality(store) = 1
        /\ req'.op = "record" /\ req'.kind = "end"
        /\ InRange(req'.percentage) /\ Authorizes(req'.token))
       => /\ resp'.code = 200
          /\ Cardinality(store') = 1
          /\ \A s \in store' :
                /\ s.start_percentage = req.percentage
                /\ s.end_percentage = Some(req'.percentage)
          /\ \A o \in get_status(store', req'.token) :
                o.resp.code = 200 /\ o.resp.body.status = "idle"]_vars

\* C13 witness: the first session ever, started at 100 and ended at 0 by the
\* only two requests that read the clock.
C13_Witness ==
    /\ req.op = "record" /\ req.kind = "end" /\ resp.code = 200
    /\ issued = 1 /\ clock = 3
    /\ store = {ChargingSession(1, MaxPercentage, 1, Some(MinPercentage),
                                Some(2))}

\* A token the gate accepts.
GoodToken == IF UNLOCK_PHRASE = "" THEN None ELSE Some(UNLOCK_PHRASE)

LatestOpen(s) ==
    /\ s \in store /\ IsOpen(s)
    /\ \A t \in store : IsOpen(t) => t.start_time <= s.start_time

\* C14: status() reports charging exactly when some stored session is open,
\* with the start_percentage and start_time of the open session that has the
\* latest start_time, and idle exactly when none is open.
C14_StatusFollowsOpen ==
    /\ \A o \in get_status(store, GoodToken) :
          /\ o.resp.code = 200
          /\ o.resp.body.status \in {"charging", "idle"}
          /\ o.resp.body.status = "charging" <=> \E s \in store : IsOpen(s)
          /\ o.resp.body.status = "charging" =>
                \E s \in store :
                    /\ LatestOpen(s)
                    /\ o.resp.body.start_percentage = s.start_percentage
                    /\ o.resp.body.start_time = isoformat(s.start_time)
    /\ (req.op = "status" /\ resp.code = 200) =>
          \E o \in get_status(store, GoodToken) : resp = o.resp

\* C14 witness: status answered charging over two open sessions started at
\* different percentages, with the percentage of the later one.
C14_Witness ==
    /\ req.op = "status" /\ resp.code = 200
    /\ resp.body.status = "charging"
    /\ \E s, t \in store :
          /\ IsOpen(s) /\ IsOpen(t)
          /\ s.start_time < t.start_time
          /\ s.start_percentage # t.start_percentage
          /\ resp.body.start_percentage = t.start_percentage

\* C15: delete(id) of an id no stored session has answers 404 and leaves the
\* store unchanged; delete(id) of a stored id removes exactly that session.
C15_Delete ==
    [][(req'.op = "delete" /\ Authorizes(req'.token))
       => IF req'.session_id \notin {s.id : s \in store}
          THEN /\ resp'.code = 404 /\ resp'.detail = "Session not found"
               /\ store' = store
          ELSE /\ resp'.code = 200
               /\ store' = {s \in store : s.id # req'.session_id}
               /\ Cardinality(store') = Cardinality(store) - 1]_vars

\* C15 witness: a delete removed one session and left another.
C15_Witness ==
    /\ req.op = "delete" /\ resp.code = 200
    /\ store # {} /\ req.session_id \notin {s.id : s \in store}

\* C16: from any store, an authorized delete_all() leaves list_all empty and
\* status() idle.
C16_DeleteAll ==
    [][(req'.op = "delete_all" /\ Authorizes(req'.token))
       => /\ resp'.code = 200
          /\ store' = {}
          /\ \A o \in get_sessions(store', req'.token) :
                o.resp.code = 200 /\ o.resp.body.sessions = <<>>
          /\ \A o \in get_status(store', req'.token) :
                o.resp.code = 200 /\ o.resp.body.status = "idle"]_vars

\* C16 witness: delete_all succeeded on a store that had held two sessions
\* at once.
C16_Witness ==
    /\ req.op = "delete_all" /\ resp.code = 200
    /\ store = {} /\ issued = 2

\* C17: record(kind, p) with p in [0,100] and a kind other than "start" and
\* "end" answers 400 and creates or modifies no session.
C17_UnknownKind ==
    [][(/\ req'.op = "record" /\ req'.kind \notin {"start", "end"}
        /\ InRange(req'.percentage))
       => /\ store' = store
          /\ Authorizes(req'.token) =>
                /\ resp'.code = 400
                /\ resp'.detail = "Type must be 'start' or 'end'"]_vars

\* C17 witness: a "pause" was refused while a session was open.
C17_Witness ==
    /\ req.op = "record" /\ req.kind = "pause" /\ InRange(req.percentage)
    /\ Authorizes(req.token) /\ resp.code = 400
    /\ \E s \in store : IsOpen(s)

\* C18: a successful record(end, p) closes exactly the open session with the
\* latest start_time, setting end_percentage = p and end_time = now, and
\* changes nothing else: no other field, no other session, no session added
\* or removed.
C18_EndClosesLatest ==
    [][(req'.op = "record" /\ req'.kind = "end" /\ resp'.code = 200)
       => \E s \in store :
             /\ LatestOpen(s)
             /\ store' = (store \ {s}) \cup
                   {[s EXCEPT !.end_percentage = Some(req'.percentage),
                              !.end_time = Some(clock)]}
             /\ Cardinality(store') = Cardinality(store)]_vars

\* C18 witness: an end succeeded and left an earlier session open.
C18_Witness ==
    /\ req.op = "record" /\ req.kind = "end" /\ resp.code = 200
    /\ \E s, t \in store :
          /\ IsOpen(s) /\ IsClosed(t) /\ s.start_time < t.start_time
          /\ t.end_percentage = Some(req.percentage)

\* C19: every stored session is well-formed: start_percentage in [0,100],
\* start_time present, and the end fields either both absent or both present
\* with end_percentage in [0,100] and end_time not before start_time.
C19_WellFormed ==
    \A s \in store :
        /\ InRange(s.start_percentage)
        /\ s.start_time \in 1..MaxClock
        /\ \/ IsOpen(s)
           \/ /\ IsClosed(s)
              /\ InRange(s.end_percentage[1])
              /\ s.end_time[1] >= s.start_time

\* C20: status, list, CSV export, health check and unlock leave the store as
\* it is, authorized or not.
C20_ReadsKeepStore ==
    [][req'.op \in {"status", "sessions", "csv", "health", "unlock"}
       => store' = store]_vars

\* C20 witness: an authorized export over an open and a closed session.
C20_Witness ==
    /\ req.op = "csv" /\ resp.code = 200
    /\ \E s \in store : IsOpen(s)
    /\ \E s \in store : IsClosed(s)

=============================================================================
